---- MODULE Spec2Model ----
(***************************************************************************)
(* folderSummaryService (lib/model/folder_summary.go): the Classifier      *)
(* (listenForUpdates / processUpdate), the Scheduler (calculateSummaries / *)
(* foldersToHandle), the Publisher (sendSummary / Summary) and the         *)
(* liveness notification (OnEventRequest), as three goroutines over the    *)
(* shared dirty-set, the liveness timestamp, their two mutexes, the        *)
(* unbuffered immediate channel and the pump timer.  Time is in seconds.   *)
(***************************************************************************)
EXTENDS Integers, Sequences, FiniteSets, TLC

\* ------------------------------------------------------------ constants

minSummaryInterval == 60

pumpInterval == 2

\* Every time is kept as its distance from the present: a time in the past
\* as what time.Since gives for it, the pump timer as what is left until it
\* expires.  The code compares the age of lastEventReq with
\* minSummaryInterval only, so an age beyond it is kept as LongAgo; the zero
\* time.Time{} that lastEventReq starts with is that old.
LongAgo == minSummaryInterval + 1

\* the amount by which the clock advances in one step
Delay == minSummaryInterval + 1

\* how many times the clock advances while one tick is processed
MaxBatchDelays == 1

\* The largest byte count, standing for math.MaxInt64.
MaxBytes == 2

\* c.id, the devices of the cluster, and cfg.Folders() with each folder's
\* Devices list
id == "self"

DeviceIDs == {"self", "A", "B"}

cfgFolders == [f1 |-> <<"self", "A">>, f2 |-> <<"A", "self", "B">>]

FolderIDs == DOMAIN cfgFolders

NoFolder == "-"

\* pump is not armed: it has fired and was not reset yet
NoTimer == -1

\* ------------------------------------------------------------ events

\* the event kinds of the subscription mask that carry a "folder" attribute
\* and are handled by the default branch of processUpdate
FolderEventTypes ==
    {"LocalIndexUpdated", "RemoteIndexUpdated", "RemoteDownloadProgress",
     "FolderWatchStateChanged"}

\* the folder states an event names as its "from" and as its "to"
FromStates == {"scanning", "syncing", "sync-preparing"}

ToStates == {"idle", "syncing"}

Event(t, d, k, f, from, to) ==
    [type |-> t, dev |-> d, keys |-> k, folder |-> f, from |-> from, to |-> to]

NoEvent == Event("none", "-", {}, NoFolder, "-", "-")

Events ==
    {Event("DeviceConnected", d, {}, NoFolder, "-", "-") : d \in DeviceIDs \ {id}}
    \cup {Event("DownloadProgress", "-", k, NoFolder, "-", "-") :
             k \in {{"f2"}, FolderIDs}}
    \cup {Event("StateChanged", "-", {}, f, s[1], s[2]) :
             f \in FolderIDs, s \in FromStates \X ToStates}
    \cup {Event(t, "-", {}, f, "-", "-") : t \in FolderEventTypes, f \in FolderIDs}

\* the published events
FolderSummary(f) == [type |-> "FolderSummary", folder |-> f, device |-> "-"]

FolderCompletion(f, d) == [type |-> "FolderCompletion", folder |-> f, device |-> d]

\* the outcomes of model.FolderErrors
FolderErrs == {"nil", "ErrFolderPaused", "errFolderNotRunning", "other"}

VARIABLES
    folders,          \* c.folders, the dirty-set
    foldersMut,       \* holder of c.foldersMut, or "free"
    lastEventReq,     \* c.lastEventReq, as its age
    requested,        \* OnEventRequest has been called since construction
    lastEventReqMut,  \* holder of c.lastEventReqMut, or "free"
    cancelled,        \* ctx.Done() is closed
    pumpAt,           \* the time left until pump expires, NoTimer when not armed
    pumpC,            \* a value is buffered in pump.C
    subscribed,       \* the Classifier holds its event subscription
    cpc,              \* Classifier: position in listenForUpdates/processUpdate
    ev,               \* Classifier: the event being processed
    folder,           \* Classifier: processUpdate's local "folder"
    apc,              \* an API goroutine's position in OnEventRequest
    spc,              \* Scheduler: position in calculateSummaries
    t0,               \* Scheduler: local t0 of the tick, as its age
    last,             \* Scheduler: foldersToHandle's local "last", as its age
    batch,            \* Scheduler: what is left of foldersToHandle's result
    cur,              \* Scheduler: sendSummary's argument
    origin,           \* Scheduler: which select case called sendSummary
    immediate,        \* c.immediate: the folder handed to the blocked receiver
    connected,        \* this publish: the devices of the folder that are connected
    emitted,          \* the events logged by the publish in progress
    snapErr,          \* this publish: did model.DBSnapshot fail
    folderErr,        \* this publish: the error of model.FolderErrors
    needSize,         \* this publish: snap.NeedSize().Bytes
    completed,        \* this publish: model.FolderProgressBytesCompleted
    needBytes,        \* this publish: res["needBytes"] of the summary logged
    stale,            \* this tick: lastEventReq was over a minute old at the check
    drained,          \* this tick: the folders foldersToHandle took from c.folders
    published,        \* this tick: the folders sendSummary was called with, in order
    failed,           \* this tick: the folders whose sendSummary logged nothing
    notBefore,        \* the time left until t0 + 2d + pumpInterval of the previous tick
    prevD,            \* the duration d of the previous tick
    remarked,         \* the dirty folders that were marked again while dirty
    drainedRemarked   \* this tick: remarked, as it was at the drain

cvars == <<subscribed, cpc, ev, folder>>

slocals == <<t0, last, batch, cur, origin>>

svars == <<spc, slocals>>

tvars == <<pumpAt, pumpC>>

\* what the publish in progress has asked and logged
pvars == <<connected, emitted, snapErr, folderErr, needSize, completed, needBytes>>

\* what is recorded of the tick in progress and of the previous one
hvars == <<stale, drained, published, failed, notBefore, prevD, drainedRemarked>>

vars ==
    <<folders, foldersMut, lastEventReq, requested, lastEventReqMut, cancelled, apc,
      cvars, svars, tvars, immediate, pvars, hvars, remarked>>

\* ------------------------------------------------------------ helpers

\* the elements of the sequence ds
Range(ds) == {ds[i] : i \in 1..Len(ds)}

Min(a, b) == IF a < b THEN a ELSE b

Max(a, b) == IF a > b THEN a ELSE b

\* c.folders[f] = struct{}{}
MarkDirty(fs, f) == fs \cup {f}

\* the folders of cfg.Folders() whose Devices contain deviceID
\* a faulty loop: it marks every configured folder
SharedWithAnyone(deviceID) == FolderIDs

\* the folders of c.cfg.Folders() that have deviceID among their Devices
SharedWith(deviceID) ==
    {f \in FolderIDs : \E i \in 1..Len(cfgFolders[f]) : cfgFolders[f][i] = deviceID}

\* the loop "for ... { c.folders[f] = struct{}{} }" over the folders fs
RECURSIVE MarkAll(_, _)
MarkAll(dirty, fs) ==
    IF fs = {} THEN dirty
    ELSE LET f == CHOOSE x \in fs : TRUE
         IN  MarkAll(MarkDirty(dirty, f), fs \ {f})

\* a faulty range loop: it visits a key of the map twice
RangeTwice(fs) == IF fs = {} THEN {<<>>} ELSE {<<f, f>> : f \in fs}

\* the orders in which "for folder := range c.folders" can visit the map
RECURSIVE RangeOrders(_)
RangeOrders(fs) ==
    IF fs = {} THEN {<<>>}
    ELSE UNION {{<<f>> \o r : r \in RangeOrders(fs \ {f})} : f \in fs}

\* a faulty Summary: every error of FolderErrors makes it fail
SummaryFailsOnAnyError(se, fe) == se \/ fe # "nil"

\* the error Summary returns: DBSnapshot failed, or FolderErrors failed with
\* something else than folder paused / not running
SummaryFails(se, fe) ==
    se \/ fe \notin {"nil", "ErrFolderPaused", "errFolderNotRunning"}

\* a faulty reset: pump.Reset(pumpInterval), whatever the tick took
WaitNominal(elapsed) == pumpInterval

\* the wait handed to pump.Reset
Wait(elapsed) == 2 * elapsed + pumpInterval

\* ------------------------------------------------------------ Init

\* the service as NewFolderSummaryService returns it, its two goroutines
\* not yet started
Init ==
    /\ folders = {}
    /\ foldersMut = "free"
    /\ lastEventReq = LongAgo
    /\ requested = FALSE
    /\ lastEventReqMut = "free"
    /\ cancelled = FALSE
    /\ pumpAt = NoTimer
    /\ pumpC = FALSE
    /\ subscribed = FALSE
    /\ cpc = "start"
    /\ ev = NoEvent
    /\ folder = NoFolder
    /\ apc = "idle"
    /\ spc = "start"
    /\ t0 = 0
    /\ last = 0
    /\ batch = <<>>
    /\ cur = NoFolder
    /\ origin = "-"
    /\ immediate = NoFolder
    /\ connected = {}
    /\ emitted = <<>>
    /\ snapErr = FALSE
    /\ folderErr = "nil"
    /\ needSize = 0
    /\ completed = 0
    /\ needBytes = 0
    /\ stale = FALSE
    /\ drained = {}
    /\ published = <<>>
    /\ failed = {}
    /\ notBefore = 0
    /\ prevD = 0
    /\ remarked = {}
    /\ drainedRemarked = {}

\* ------------------------------------------------------------ environment

\* the Scheduler is blocked in its select and no case has woken it yet
Blocked == spc = "parked" /\ immediate = NoFolder

\* the positions of the Scheduler at which t0 is live
InTick ==
    \/ spc \in {"fth_lock", "fth_read", "fth_check", "drain_lock", "drain",
                "range", "reset"}
    \/ spc \in {"summary", "return"} /\ origin = "pump"

\* time passes
Advance ==
    /\ InTick => t0 + Delay <= MaxBatchDelays * Delay
    /\ lastEventReq' = Min(lastEventReq + Delay, LongAgo)
    /\ last' = IF spc = "fth_check" THEN Min(last + Delay, LongAgo) ELSE last
    /\ t0' = IF InTick THEN t0 + Delay ELSE t0
    /\ pumpAt' = IF pumpAt = NoTimer THEN NoTimer ELSE Max(pumpAt - Delay, 0)
    /\ notBefore' = Max(notBefore - Delay, 0)
    /\ UNCHANGED <<folders, foldersMut, requested, lastEventReqMut, cancelled,
                   apc, cvars, spc, batch, cur, origin, pumpC, immediate, pvars,
                   stale, drained, published, failed, prevD, drainedRemarked,
                   remarked>>

\* the runtime fires the pump timer: the value goes to the Scheduler if it
\* is blocked in its select, into pump.C's buffer otherwise
TimerFire ==
    /\ pumpAt = 0
    /\ pumpAt' = NoTimer
    /\ IF Blocked
         THEN spc' = "tick" /\ pumpC' = pumpC
         ELSE spc' = spc /\ pumpC' = TRUE
    /\ UNCHANGED <<folders, foldersMut, lastEventReq, requested, lastEventReqMut, cancelled,
                   apc, cvars, slocals, immediate, pvars, hvars, remarked>>

\* the supervisor cancels the context: a Scheduler blocked in its select
\* takes the ctx.Done() case
Cancel ==
    /\ ~cancelled
    /\ cancelled' = TRUE
    /\ spc' = IF Blocked THEN "exited" ELSE spc
    /\ UNCHANGED <<folders, foldersMut, lastEventReq, requested, lastEventReqMut, apc, cvars,
                   t0, last, batch, cur, origin, tvars, immediate, pvars, hvars, remarked>>

\* ------------------------------------------------------------ OnEventRequest

OnEventRequestLock ==
    /\ apc = "idle"
    /\ lastEventReqMut = "free"
    /\ lastEventReqMut' = "api"
    /\ apc' = "locked"
    /\ UNCHANGED <<folders, foldersMut, lastEventReq, requested, cancelled, cvars, svars,
                   tvars, immediate, pvars, hvars, remarked>>

OnEventRequestSet ==
    /\ apc = "locked"
    /\ lastEventReq' = 0
    /\ requested' = TRUE
    /\ lastEventReqMut' = "free"
    /\ apc' = "idle"
    /\ UNCHANGED <<folders, foldersMut, cancelled, cvars, svars, tvars, immediate,
                   pvars, hvars, remarked>>

\* ------------------------------------------------------------ Classifier

\* listenForUpdates subscribes to the event bus
Subscribe ==
    /\ cpc = "start"
    /\ subscribed' = TRUE
    /\ cpc' = "select"
    /\ UNCHANGED <<folders, foldersMut, lastEventReq, requested, lastEventReqMut, cancelled,
                   apc, ev, folder, svars, tvars, immediate, pvars, hvars, remarked>>

\* a listenForUpdates whose return leaves the subscription behind
ListenDoneKeepsSubscription ==
    /\ cpc = "select"
    /\ cancelled
    /\ cpc' = "exited"
    /\ UNCHANGED <<folders, foldersMut, lastEventReq, requested, lastEventReqMut, cancelled,
                   apc, subscribed, ev, folder, svars, tvars, immediate, pvars,
                   hvars, remarked>>

\* case <-ctx.Done(): return, and the deferred sub.Unsubscribe()
ListenDone ==
    /\ cpc = "select"
    /\ cancelled
    /\ cpc' = "exited"
    /\ subscribed' = FALSE
    /\ UNCHANGED <<folders, foldersMut, lastEventReq, requested, lastEventReqMut, cancelled,
                   apc, ev, folder, svars, tvars, immediate, pvars, hvars, remarked>>

\* a faulty test: it does not look at the prior state
IdleTransitionFromAnywhere(e) == e.to = "idle"

\* does processUpdate act on this StateChanged event
IdleTransition(e) == e.to = "idle" /\ e.from \in {"syncing", "sync-preparing"}

\* case ev := <-sub.C(): processUpdate(ev), up to the first lock or send
ReceiveDeviceConnected ==
    /\ cpc = "select"
    /\ \E e \in Events : e.type = "DeviceConnected" /\ ev' = e
    /\ cpc' = "dc_lock"
    /\ UNCHANGED <<folders, foldersMut, lastEventReq, requested, lastEventReqMut, cancelled,
                   apc, subscribed, folder, svars, tvars, immediate, pvars, hvars, remarked>>

ReceiveDownloadProgress ==
    /\ cpc = "select"
    /\ \E e \in Events : e.type = "DownloadProgress" /\ ev' = e
    /\ cpc' = "dp_lock"
    /\ UNCHANGED <<folders, foldersMut, lastEventReq, requested, lastEventReqMut, cancelled,
                   apc, subscribed, folder, svars, tvars, immediate, pvars, hvars, remarked>>

\* a StateChanged event that is not a transition from syncing to idle: return
ReceiveStateChangedOther ==
    /\ cpc = "select"
    /\ \E e \in Events : e.type = "StateChanged" /\ ~IdleTransition(e) /\ ev' = e
    /\ cpc' = "sc_return"
    /\ UNCHANGED <<folders, foldersMut, lastEventReq, requested, lastEventReqMut, cancelled,
                   apc, subscribed, folder, svars, tvars, immediate, pvars, hvars, remarked>>

StateChangedReturn ==
    /\ cpc = "sc_return"
    /\ cpc' = "select"
    /\ ev' = NoEvent
    /\ UNCHANGED <<folders, foldersMut, lastEventReq, requested, lastEventReqMut, cancelled,
                   apc, subscribed, folder, svars, tvars, immediate, pvars, hvars, remarked>>

\* folder = data["folder"], before the select on c.immediate
ReceiveStateChangedIdle ==
    /\ cpc = "select"
    /\ \E e \in Events :
          /\ e.type = "StateChanged" /\ IdleTransition(e)
          /\ ev' = e
          /\ folder' = e.folder
    /\ cpc' = "sc_send"
    /\ UNCHANGED <<folders, foldersMut, lastEventReq, requested, lastEventReqMut, cancelled,
                   apc, subscribed, svars, tvars, immediate, pvars, hvars, remarked>>

\* the default branch: folder = ev.Data["folder"]
ReceiveFolderEvent ==
    /\ cpc = "select"
    /\ \E e \in Events : e.type \in FolderEventTypes /\ folder' = e.folder
    /\ cpc' = "mark_lock"
    /\ UNCHANGED <<folders, foldersMut, lastEventReq, requested, lastEventReqMut, cancelled,
                   apc, subscribed, ev, svars, tvars, immediate, pvars, hvars, remarked>>

\* c.foldersMut.Lock() at the Classifier's position "at", going to "to"
ClassifierLock(at, to) ==
    /\ cpc = at
    /\ foldersMut = "free"
    /\ foldersMut' = "classifier"
    /\ cpc' = to
    /\ UNCHANGED <<folders, lastEventReq, requested, lastEventReqMut, cancelled, apc,
                   subscribed, ev, folder, svars, tvars, immediate, pvars, hvars, remarked>>

DeviceConnectedLock == ClassifierLock("dc_lock", "dc_mark")

DownloadProgressLock == ClassifierLock("dp_lock", "dp_mark")

ImmediateSentLock == ClassifierLock("sc_lock", "sc_delete")

FallThroughLock == ClassifierLock("sc_mark_lock", "sc_mark")

MarkLock == ClassifierLock("mark_lock", "mark")

\* the loop over cfg.Folders()
DeviceConnectedMark ==
    /\ cpc = "dc_mark"
    /\ folders' = MarkAll(folders, SharedWith(ev.dev))
    /\ remarked' = remarked \cup (folders \cap SharedWith(ev.dev))
    /\ cpc' = "dc_unlock"
    /\ UNCHANGED <<foldersMut, lastEventReq, requested, lastEventReqMut, cancelled, apc,
                   subscribed, ev, folder, svars, tvars, immediate, pvars, hvars>>

\* c.foldersMut.Unlock(); return
DeviceConnectedUnlock ==
    /\ cpc = "dc_unlock"
    /\ foldersMut' = "free"
    /\ cpc' = "select"
    /\ ev' = NoEvent
    /\ UNCHANGED <<folders, lastEventReq, requested, lastEventReqMut, cancelled, apc,
                   subscribed, folder, svars, tvars, immediate, pvars, hvars,
                   remarked>>

\* the loop over the keys of the payload, Unlock, return
DownloadProgressMark ==
    /\ cpc = "dp_mark"
    /\ folders' = MarkAll(folders, ev.keys)
    /\ remarked' = remarked \cup (folders \cap ev.keys)
    /\ foldersMut' = "free"
    /\ cpc' = "select"
    /\ ev' = NoEvent
    /\ UNCHANGED <<lastEventReq, requested, lastEventReqMut, cancelled, apc, subscribed,
                   folder, svars, tvars, immediate, pvars, hvars>>

\* a faulty channel: make(chan string, 1), a send succeeds while the buffer
\* is empty
ImmediateBuffered == immediate = NoFolder

\* is a receiver blocked on c.immediate (the channel is unbuffered)
ImmediateReady == Blocked

\* select { case c.immediate <- folder: ... }: the Scheduler, blocked in its
\* select, receives the folder
ImmediateSend ==
    /\ cpc = "sc_send"
    /\ ImmediateReady
    /\ cpc' = "sc_lock"
    /\ immediate' = folder
    /\ ev' = NoEvent
    /\ UNCHANGED <<folders, foldersMut, lastEventReq, requested, lastEventReqMut, cancelled,
                   apc, subscribed, folder, svars, tvars, pvars, hvars, remarked>>

\* a faulty default case: it returns instead of falling through
ImmediateDefaultReturns ==
    /\ cpc = "sc_send"
    /\ ~ImmediateReady
    /\ cpc' = "select"
    /\ folder' = NoFolder
    /\ ev' = NoEvent
    /\ UNCHANGED <<folders, foldersMut, lastEventReq, requested, lastEventReqMut, cancelled,
                   apc, subscribed, svars, tvars, immediate, pvars, hvars, remarked>>

\* select { ... default: }: nobody receives, fall through to the marking
ImmediateDefault ==
    /\ cpc = "sc_send"
    /\ ~ImmediateReady
    /\ cpc' = "sc_mark_lock"
    /\ ev' = NoEvent
    /\ UNCHANGED <<folders, foldersMut, lastEventReq, requested, lastEventReqMut, cancelled,
                   apc, subscribed, folder, svars, tvars, immediate, pvars, hvars, remarked>>

\* delete(c.folders, folder), Unlock, return
ImmediateSentDelete ==
    /\ cpc = "sc_delete"
    /\ folders' = folders \ {folder}
    /\ remarked' = remarked \ {folder}
    /\ foldersMut' = "free"
    /\ cpc' = "select"
    /\ folder' = NoFolder
    /\ UNCHANGED <<lastEventReq, requested, lastEventReqMut, cancelled, apc, subscribed, ev,
                   svars, tvars, immediate, pvars, hvars>>

\* c.folders[folder] = struct{}{}, Unlock, return
Mark ==
    /\ cpc \in {"sc_mark", "mark"}
    /\ folders' = MarkDirty(folders, folder)
    /\ remarked' = remarked \cup (folders \cap {folder})
    /\ foldersMut' = "free"
    /\ cpc' = "select"
    /\ folder' = NoFolder
    /\ UNCHANGED <<lastEventReq, requested, lastEventReqMut, cancelled, apc, subscribed, ev,
                   svars, tvars, immediate, pvars, hvars>>

listenForUpdates ==
    \/ Subscribe
    \/ ListenDone
    \/ ReceiveDeviceConnected
    \/ ReceiveDownloadProgress
    \/ ReceiveStateChangedOther
    \/ StateChangedReturn
    \/ ReceiveStateChangedIdle
    \/ ReceiveFolderEvent
    \/ DeviceConnectedLock
    \/ DownloadProgressLock
    \/ ImmediateSentLock
    \/ FallThroughLock
    \/ MarkLock
    \/ DeviceConnectedMark
    \/ DeviceConnectedUnlock
    \/ DownloadProgressMark
    \/ ImmediateSend
    \/ ImmediateDefault
    \/ ImmediateSentDelete
    \/ Mark

\* ------------------------------------------------------------ Scheduler

\* what no step of the Scheduler changes
SchedulerFrame ==
    UNCHANGED <<lastEventReq, requested, cancelled, apc, cvars>>

\* pump := time.NewTimer(pumpInterval)
NewTimer ==
    /\ spc = "start"
    /\ pumpAt' = pumpInterval
    /\ spc' = "select"
    /\ SchedulerFrame
    /\ UNCHANGED <<folders, foldersMut, lastEventReqMut, slocals, pumpC, immediate,
                   pvars, hvars, remarked>>

\* select finds pump.C ready: case <-pump.C
SelectPump ==
    /\ spc = "select"
    /\ pumpC
    /\ pumpC' = FALSE
    /\ spc' = "tick"
    /\ SchedulerFrame
    /\ UNCHANGED <<folders, foldersMut, lastEventReqMut, slocals, pumpAt, immediate,
                   pvars, hvars, remarked>>

\* a return that first flushes: it empties c.folders on the way out
SelectDoneDrains ==
    /\ spc = "select"
    /\ cancelled
    /\ folders' = {}
    /\ spc' = "exited"
    /\ SchedulerFrame
    /\ UNCHANGED <<foldersMut, lastEventReqMut, slocals, pumpAt, pumpC,
                   immediate, pvars, hvars, remarked>>

\* select finds ctx.Done() closed: return
SelectDone ==
    /\ spc = "select"
    /\ cancelled
    /\ spc' = "exited"
    /\ SchedulerFrame
    /\ UNCHANGED <<folders, foldersMut, lastEventReqMut, slocals, pumpAt, pumpC,
                   immediate, pvars, hvars, remarked>>

\* select finds no case ready and blocks
SelectBlock ==
    /\ spc = "select"
    /\ ~pumpC
    /\ ~cancelled
    /\ immediate = NoFolder
    /\ spc' = "parked"
    /\ SchedulerFrame
    /\ UNCHANGED <<folders, foldersMut, lastEventReqMut, slocals, pumpAt, pumpC,
                   immediate, pvars, hvars, remarked>>

\* a faulty immediate case: it applies the liveness check of the tick and
\* drops a folder received while nobody listens
SelectImmediateGated ==
    /\ spc \in {"select", "parked"}
    /\ immediate # NoFolder
    /\ immediate' = NoFolder
    /\ IF lastEventReq > minSummaryInterval
         THEN spc' = "select" /\ cur' = cur /\ origin' = origin
         ELSE spc' = "summary" /\ cur' = immediate /\ origin' = "immediate"
    /\ SchedulerFrame
    /\ UNCHANGED <<folders, foldersMut, lastEventReqMut, t0, last, batch,
                   pumpAt, pumpC, pvars, hvars, remarked>>

\* case folder := <-c.immediate: c.sendSummary(folder)
SelectImmediate ==
    /\ spc \in {"select", "parked"}
    /\ immediate # NoFolder
    /\ cur' = immediate
    /\ immediate' = NoFolder
    /\ origin' = "immediate"
    /\ spc' = "summary"
    /\ SchedulerFrame
    /\ UNCHANGED <<folders, foldersMut, lastEventReqMut, t0, last, batch,
                   pumpAt, pumpC, pvars, hvars, remarked>>

\* t0 := time.Now()
TickStart ==
    /\ spc = "tick"
    /\ t0' = 0
    /\ notBefore' = 0
    /\ prevD' = 0
    /\ spc' = "fth_lock"
    /\ SchedulerFrame
    /\ UNCHANGED <<folders, foldersMut, lastEventReqMut, last, batch, cur, origin,
                   pumpAt, pumpC, immediate, pvars, stale, drained, published,
                   failed, drainedRemarked, remarked>>

\* foldersToHandle: c.lastEventReqMut.Lock()
FoldersToHandleLock ==
    /\ spc = "fth_lock"
    /\ lastEventReqMut = "free"
    /\ lastEventReqMut' = "scheduler"
    /\ spc' = "fth_read"
    /\ SchedulerFrame
    /\ UNCHANGED <<folders, foldersMut, slocals, pumpAt, pumpC, immediate, pvars,
                   hvars, remarked>>

\* a faulty foldersToHandle: it goes on without c.lastEventReqMut.Unlock()
FoldersToHandleReadKeepsLock ==
    /\ spc = "fth_read"
    /\ last' = lastEventReq
    /\ spc' = "fth_check"
    /\ SchedulerFrame
    /\ UNCHANGED <<folders, foldersMut, lastEventReqMut, t0, batch, cur, origin,
                   pumpAt, pumpC, immediate, pvars, hvars, remarked>>

\* last := c.lastEventReq; c.lastEventReqMut.Unlock()
FoldersToHandleRead ==
    /\ spc = "fth_read"
    /\ last' = lastEventReq
    /\ lastEventReqMut' = "free"
    /\ spc' = "fth_check"
    /\ SchedulerFrame
    /\ UNCHANGED <<folders, foldersMut, t0, batch, cur, origin, pumpAt, pumpC,
                   immediate, pvars, hvars, remarked>>

\* a faulty liveness check: it never finds the timestamp too old
NeverStale(age) == FALSE

\* a faulty liveness check: the comparison is the wrong way round
StaleReversed(age) == age < minSummaryInterval

\* if time.Since(last) > minSummaryInterval
Stale(age) == age > minSummaryInterval

\* a faulty foldersToHandle: it clears c.folders before it returns nil
FoldersToHandleGatedClears ==
    /\ spc = "fth_check"
    /\ Stale(last)
    /\ batch' = <<>>
    /\ folders' = {}
    /\ remarked' = {}
    /\ stale' = (last > minSummaryInterval)
    /\ last' = 0
    /\ spc' = "range"
    /\ SchedulerFrame
    /\ UNCHANGED <<foldersMut, lastEventReqMut, t0, cur, origin,
                   pumpAt, pumpC, immediate, pvars, drained, published, failed,
                   notBefore, prevD, drainedRemarked>>

\* ... return nil: the range loop of the tick runs over nothing
FoldersToHandleGated ==
    /\ spc = "fth_check"
    /\ Stale(last)
    /\ batch' = <<>>
    /\ stale' = (last > minSummaryInterval)
    /\ last' = 0
    /\ spc' = "range"
    /\ SchedulerFrame
    /\ UNCHANGED <<folders, foldersMut, lastEventReqMut, t0, cur, origin,
                   pumpAt, pumpC, immediate, pvars, drained, published, failed,
                   notBefore, prevD, drainedRemarked, remarked>>

\* the liveness check passes
FoldersToHandleFresh ==
    /\ spc = "fth_check"
    /\ ~Stale(last)
    /\ stale' = (last > minSummaryInterval)
    /\ last' = 0
    /\ spc' = "drain_lock"
    /\ SchedulerFrame
    /\ UNCHANGED <<folders, foldersMut, lastEventReqMut, t0, batch, cur, origin,
                   pumpAt, pumpC, immediate, pvars, drained, published, failed,
                   notBefore, prevD, drainedRemarked, remarked>>

\* c.foldersMut.Lock()
FoldersToHandleDrainLock ==
    /\ spc = "drain_lock"
    /\ foldersMut = "free"
    /\ foldersMut' = "scheduler"
    /\ spc' = "drain"
    /\ SchedulerFrame
    /\ UNCHANGED <<folders, lastEventReqMut, slocals, pumpAt, pumpC, immediate,
                   pvars, hvars, remarked>>

\* a faulty foldersToHandle: it returns without c.foldersMut.Unlock()
FoldersToHandleDrainKeepsLock ==
    /\ spc = "drain"
    /\ \E res \in RangeOrders(folders) : batch' = res
    /\ folders' = {}
    /\ drained' = folders
    /\ drainedRemarked' = remarked
    /\ remarked' = {}
    /\ spc' = "range"
    /\ UNCHANGED <<lastEventReq, requested, cancelled, apc, cvars>>
    /\ UNCHANGED <<foldersMut, lastEventReqMut, t0, last, cur, origin, pumpAt,
                   pumpC, immediate, pvars, stale, published, failed, notBefore,
                   prevD>>

\* the range loop over c.folders that appends and deletes every key;
\* c.foldersMut.Unlock(); return res
FoldersToHandleDrain ==
    /\ spc = "drain"
    /\ \E res \in RangeOrders(folders) : batch' = res
    /\ folders' = {}
    /\ foldersMut' = "free"
    /\ drained' = folders
    /\ drainedRemarked' = remarked
    /\ remarked' = {}
    /\ spc' = "range"
    /\ UNCHANGED <<lastEventReq, requested, cancelled, apc, cvars>>
    /\ UNCHANGED <<lastEventReqMut, t0, last, cur, origin, pumpAt, pumpC,
                   immediate, pvars, stale, published, failed, notBefore, prevD>>

\* a faulty loop: "go c.sendSummary(folder)", the loop does not wait for the
\* publish it has started
RangeNextConcurrent ==
    /\ spc \in {"range", "summary", "return"}
    /\ batch # <<>>
    /\ cur' = Head(batch)
    /\ batch' = Tail(batch)
    /\ origin' = "pump"
    /\ published' = Append(published, Head(batch))
    /\ spc' = "summary"
    /\ SchedulerFrame
    /\ UNCHANGED <<folders, foldersMut, lastEventReqMut, t0, last, pumpAt,
                   pumpC, immediate, pvars, stale, drained, failed,
                   notBefore, prevD, drainedRemarked, remarked>>

\* for _, folder := range ...: c.sendSummary(folder)
RangeNext ==
    /\ spc = "range"
    /\ batch # <<>>
    /\ cur' = Head(batch)
    /\ batch' = Tail(batch)
    /\ origin' = "pump"
    /\ published' = Append(published, Head(batch))
    /\ spc' = "summary"
    /\ SchedulerFrame
    /\ UNCHANGED <<folders, foldersMut, lastEventReqMut, t0, last, pumpAt,
                   pumpC, immediate, pvars, stale, drained, failed,
                   notBefore, prevD, drainedRemarked, remarked>>

\* the range loop is over
RangeDone ==
    /\ spc = "range"
    /\ batch = <<>>
    /\ spc' = "reset"
    /\ SchedulerFrame
    /\ UNCHANGED <<folders, foldersMut, lastEventReqMut, slocals, pumpAt, pumpC,
                   immediate, pvars, hvars, remarked>>

\* wait := 2*time.Since(t0) + pumpInterval; pump.Reset(wait)
PumpReset ==
    /\ spc = "reset"
    /\ pumpAt' = Wait(t0)
    /\ notBefore' = 2 * t0 + pumpInterval - t0
    /\ prevD' = t0
    /\ t0' = 0
    /\ stale' = FALSE
    /\ drained' = {}
    /\ published' = <<>>
    /\ failed' = {}
    /\ drainedRemarked' = {}
    /\ spc' = "select"
    /\ SchedulerFrame
    /\ UNCHANGED <<folders, foldersMut, lastEventReqMut, last, batch, cur, origin,
                   pumpC, immediate, pvars, remarked>>

\* ------------------------------------------------------------ Publisher

\* a faulty comparison: no device is taken for c.id
NeverSelf(d) == FALSE

\* devCfg.DeviceID.Equals(c.id)
IsSelf(d) == d = id

\* the loop over the Devices ds of folder f, conn being the devices
\* model.Connection finds connected: the completion events it logs
RECURSIVE Completions(_, _, _)
Completions(f, ds, conn) ==
    IF ds = <<>> THEN <<>>
    ELSE (IF IsSelf(Head(ds)) THEN <<>>
          ELSE IF Head(ds) \notin conn THEN <<>>
          ELSE <<FolderCompletion(f, Head(ds))>>)
         \o Completions(f, Tail(ds), conn)

\* a faulty sendSummary: it logs the FolderSummary event after the loop
CompletionsFirst(f, conn) ==
    Completions(f, cfgFolders[f], conn) \o <<FolderSummary(f)>>

\* the events sendSummary(f) logs after Summary has returned without error
SummaryEvents(f, conn) ==
    <<FolderSummary(f)>> \o Completions(f, cfgFolders[f], conn)

\* an int64: the value x wraps to
Int64(x) == ((x + MaxBytes + 1) % (2 * (MaxBytes + 1))) - (MaxBytes + 1)

\* a faulty Summary: it reports the difference as it is
NeedBytesUnclamped(n, p) == Int64(n - p)

\* need.Bytes -= c.model.FolderProgressBytesCompleted(folder);
\* if need.Bytes < 0 { need.Bytes = 0 }
NeedBytes(n, p) == IF Int64(n - p) < 0 THEN 0 ELSE Int64(n - p)

\* what the Model can answer to Summary's two first queries, as <<did
\* DBSnapshot fail, the error of FolderErrors>>: FolderErrors is asked only
\* when DBSnapshot succeeded
SummaryAnswers == {<<TRUE, "nil">>} \cup {<<FALSE, fe>> : fe \in FolderErrs}

\* the two answers that make Summary fail at once and succeed without error
PlainAnswers == {<<TRUE, "nil">>, <<FALSE, "nil">>}

\* for every folder, the sets of devices model.Connection can find
\* connected while the folder is published (devices the folder is not
\* shared with included)
Connections == [f \in FolderIDs |-> SUBSET DeviceIDs]

\* ... when every device is connected
AllConnected == [f \in FolderIDs |-> {DeviceIDs}]

\* what the Model can answer as <<snap.NeedSize().Bytes,
\* FolderProgressBytesCompleted>>: two byte counts
Sizes == (0..MaxBytes) \X (0..MaxBytes)

\* ... when nothing is needed and nothing is in progress
NoSizes == {<<0, 0>>}

\* data, err := c.Summary(folder) with err != nil: return
SendSummaryFails(answers, conns) ==
    /\ spc = "summary"
    /\ \E a \in answers :
          /\ SummaryFails(a[1], a[2])
          /\ snapErr' = a[1]
          /\ folderErr' = a[2]
    /\ \E conn \in conns[cur] : connected' = conn
    /\ emitted' = <<>>
    /\ UNCHANGED <<needSize, completed, needBytes>>
    /\ spc' = "return"
    /\ SchedulerFrame
    /\ UNCHANGED <<folders, foldersMut, lastEventReqMut, slocals, pumpAt, pumpC,
                   immediate, hvars, remarked>>

\* data, err := c.Summary(folder) with err == nil, the FolderSummary event
\* and the loop over c.cfg.Folders()[folder].Devices
SendSummaryLogs(answers, conns, sizes) ==
    /\ spc = "summary"
    /\ \E a \in answers :
          /\ ~SummaryFails(a[1], a[2])
          /\ snapErr' = a[1]
          /\ folderErr' = a[2]
    /\ \E sz \in sizes :
          /\ needSize' = sz[1]
          /\ completed' = sz[2]
          /\ needBytes' = NeedBytes(sz[1], sz[2])
    /\ \E conn \in conns[cur] :
          /\ connected' = conn
          /\ emitted' = SummaryEvents(cur, conn)
    /\ spc' = "return"
    /\ SchedulerFrame
    /\ UNCHANGED <<folders, foldersMut, lastEventReqMut, slocals, pumpAt, pumpC,
                   immediate, hvars, remarked>>

\* sendSummary returns: into the range loop of the tick, or to the select
SendSummaryReturn ==
    /\ spc = "return"
    /\ spc' = IF origin = "pump" THEN "range" ELSE "select"
    /\ cur' = NoFolder
    /\ origin' = "-"
    /\ connected' = {}
    /\ emitted' = <<>>
    /\ snapErr' = FALSE
    /\ folderErr' = "nil"
    /\ needSize' = 0
    /\ completed' = 0
    /\ needBytes' = 0
    /\ failed' = IF origin = "pump" /\ emitted = <<>> THEN failed \cup {cur} ELSE failed
    /\ SchedulerFrame
    /\ UNCHANGED <<folders, foldersMut, lastEventReqMut, t0, last, batch, pumpAt,
                   pumpC, immediate, stale, drained, published,
                   notBefore, prevD, drainedRemarked, remarked>>

\* the Scheduler, the Model answering Summary with one of answers and one
\* of sizes, and finding one of conns[folder] connected
calculateSummaries(answers, conns, sizes) ==
    \/ NewTimer
    \/ SelectPump
    \/ SelectDone
    \/ SelectBlock
    \/ SelectImmediate
    \/ TickStart
    \/ FoldersToHandleLock
    \/ FoldersToHandleRead
    \/ FoldersToHandleGated
    \/ FoldersToHandleFresh
    \/ FoldersToHandleDrainLock
    \/ FoldersToHandleDrain
    \/ RangeNext
    \/ RangeDone
    \/ PumpReset
    \/ SendSummaryFails(answers, conns)
    \/ SendSummaryLogs(answers, conns, sizes)
    \/ SendSummaryReturn

OnEventRequest == OnEventRequestLock \/ OnEventRequestSet

Next ==
    \/ Advance
    \/ TimerFire
    \/ Cancel
    \/ OnEventRequest
    \/ listenForUpdates
    \/ calculateSummaries(PlainAnswers, AllConnected, NoSizes)

\* the three goroutines, the clock and the supervisor
Spec == Init /\ [][Next]_vars

\* ------------------------------------------------------------ scheduling

\* The goroutines around one expiry of the pump timer, with the clock
\* standing still: started either from construction (the context cancelled
\* already or not) or from a Scheduler blocked in its select at the moment
\* pump expires, with any dirty-set and the liveness timestamp fresh or old.
InitExpiry ==
    /\ folders \in SUBSET FolderIDs
    /\ foldersMut = "free"
    /\ lastEventReq \in {0, LongAgo}
    /\ requested \in BOOLEAN
    /\ lastEventReq = 0 => requested
    /\ lastEventReqMut = "free"
    /\ pumpC = FALSE
    /\ ev = NoEvent
    /\ folder = NoFolder
    /\ apc = "idle"
    /\ immediate = NoFolder
    /\ \/ /\ spc = "start"
          /\ pumpAt = NoTimer
          /\ subscribed = FALSE
          /\ cpc = "start"
          /\ folders = {}
          /\ cancelled \in BOOLEAN
       \/ /\ spc = "parked"
          /\ pumpAt = 0
          /\ subscribed = TRUE
          /\ cpc = "select"
          /\ cancelled = FALSE
    /\ t0 = 0
    /\ last = 0
    /\ batch = <<>>
    /\ cur = NoFolder
    /\ origin = "-"
    /\ connected = {}
    /\ emitted = <<>>
    /\ snapErr = FALSE
    /\ folderErr = "nil"
    /\ needSize = 0
    /\ completed = 0
    /\ needBytes = 0
    /\ stale = FALSE
    /\ drained = {}
    /\ published = <<>>
    /\ failed = {}
    /\ notBefore = 0
    /\ prevD = 0
    /\ remarked = {}
    /\ drainedRemarked = {}

NextExpiry ==
    \/ TimerFire
    \/ Cancel
    \/ listenForUpdates
    \/ calculateSummaries(PlainAnswers, AllConnected, NoSizes)

\* The scheduling the runtime provides: a goroutine that can run does run,
\* a select that keeps finding ctx.Done() ready takes that case (select
\* chooses among its ready cases at random), and the Scheduler gets
\* c.foldersMut though the Classifier keeps taking it (sync.Mutex hands the
\* lock to a waiter that starves).
Fairness ==
    /\ WF_vars(listenForUpdates)
    /\ SF_vars(ListenDone)
    /\ WF_vars(calculateSummaries(PlainAnswers, AllConnected, NoSizes))
    /\ SF_vars(SelectDone)
    /\ SF_vars(FoldersToHandleDrainLock)

FairSpec == InitExpiry /\ [][NextExpiry]_vars /\ Fairness

\* The three users of the mutexes around one expiry of the pump timer, with
\* no cancellation after the start: a goroutine that can run does run, and
\* a call of OnEventRequest that has the mutex goes on.
NextLocks ==
    \/ TimerFire
    \/ OnEventRequest
    \/ listenForUpdates
    \/ calculateSummaries(PlainAnswers, AllConnected, NoSizes)

LockFairness ==
    /\ WF_vars(listenForUpdates)
    /\ WF_vars(calculateSummaries(PlainAnswers, AllConnected, NoSizes))
    /\ WF_vars(OnEventRequestSet)

FairSpecLocks == InitExpiry /\ [][NextLocks]_vars /\ LockFairness

\* ------------------------------------------------------------ the Publisher

\* The Scheduler, the Publisher with every answer the Model can give and the
\* API, started from the states the Classifier can leave behind when it
\* stops taking steps: any dirty-set, the liveness timestamp fresh or old,
\* and either a Scheduler that has not started or one that was blocked in
\* its select when the Classifier handed it a folder.
InitPublisher ==
    /\ folders \in SUBSET FolderIDs
    /\ foldersMut = "free"
    /\ lastEventReq \in {0, LongAgo}
    /\ requested \in BOOLEAN
    /\ lastEventReq = 0 => requested
    /\ lastEventReqMut = "free"
    /\ cancelled = FALSE
    /\ pumpC = FALSE
    /\ subscribed = TRUE
    /\ ev = NoEvent
    /\ apc = "idle"
    /\ \/ /\ spc = "start"
          /\ pumpAt = NoTimer
          /\ immediate = NoFolder
          /\ cpc = "select"
          /\ folder = NoFolder
       \/ /\ spc = "parked"
          /\ pumpAt = pumpInterval
          /\ immediate \in FolderIDs
          /\ cpc = "sc_lock"
          /\ folder = immediate
    /\ t0 = 0
    /\ last = 0
    /\ batch = <<>>
    /\ cur = NoFolder
    /\ origin = "-"
    /\ connected = {}
    /\ emitted = <<>>
    /\ snapErr = FALSE
    /\ folderErr = "nil"
    /\ needSize = 0
    /\ completed = 0
    /\ needBytes = 0
    /\ stale = FALSE
    /\ drained = {}
    /\ published = <<>>
    /\ failed = {}
    /\ notBefore = 0
    /\ prevD = 0
    /\ remarked = {}
    /\ drainedRemarked = {}

NextPublisher ==
    \/ Advance
    \/ TimerFire
    \/ Cancel
    \/ OnEventRequest
    \/ calculateSummaries(SummaryAnswers, Connections, NoSizes)

SpecPublisher == InitPublisher /\ [][NextPublisher]_vars

\* The same with a Model that answers Summary without error and with any
\* two byte counts.
NextSummary ==
    \/ Advance
    \/ TimerFire
    \/ Cancel
    \/ OnEventRequest
    \/ calculateSummaries(PlainAnswers, AllConnected, Sizes)

SpecSummary == InitPublisher /\ [][NextSummary]_vars

\* ------------------------------------------------------------ properties

NoDuplicates(seq) == \A i, j \in 1..Len(seq) : i # j => seq[i] # seq[j]

\* the devices the publish in progress has logged a FolderCompletion for
Completed ==
    {emitted[i].device :
        i \in {j \in 1..Len(emitted) : emitted[j].type = "FolderCompletion"}}

\* the devices of the folder being published that are not c.id and are
\* connected
Eligible ==
    {d \in DeviceIDs :
        /\ \E i \in 1..Len(cfgFolders[cur]) : cfgFolders[cur][i] = d
        /\ d # id
        /\ d \in connected}

\* C1: however often a folder was marked dirty between two drains, the batch
\* a non-gated drain returns holds it once: no folder is twice among the
\* folders the tick has called and will call sendSummary with, these folders
\* are the drained ones, and when the range loop is over sendSummary was
\* called exactly once for each folder that was in the dirty-set at the drain.
OnePublishPerDrainedFolder ==
    /\ NoDuplicates(published \o batch)
    /\ Range(published \o batch) \subseteq drained
    /\ (spc = "reset" /\ ~stale) =>
          /\ Range(published) = drained
          /\ Len(published) = Cardinality(drained)

\* C1: the range loop of a tick is over, both folders were dirty at the
\* drain, both had been marked again while dirty, and sendSummary was called
\* twice.
OnePublishPerDrainedFolderWitness ==
    /\ spc = "reset"
    /\ ~stale
    /\ drained = FolderIDs
    /\ drainedRemarked = FolderIDs
    /\ Len(published) = 2

\* C2: a tick that finds lastEventReq more than minSummaryInterval old calls
\* sendSummary for no folder and logs no event, whatever the dirty-set holds.
GatedTickEmitsNothing ==
    stale =>
        /\ published = <<>>
        /\ emitted = <<>>
        /\ spc \notin {"summary", "return"}

\* C2: a gated tick is over while folders are dirty, and nothing was
\* published.
GatedTickEmitsNothingWitness ==
    /\ stale
    /\ spc = "reset"
    /\ folders = FolderIDs
    /\ published = <<>>

\* C3: when foldersToHandle returns at the liveness check, the dirty-set is
\* empty.
GatedTickDrains ==
    [][(spc = "fth_check" /\ spc' = "range" /\ stale') => folders' = {}]_vars

\* C4: a folder is in c.immediate only while the Scheduler is blocked in its
\* select, so that nothing but the immediate case can run next: no tick and no
\* drain comes between the hand-off and sendSummary.  The Scheduler's receive
\* calls sendSummary with that folder, whether or not the timer has fired, and
\* the folder is not in the dirty-set when processUpdate returns from the
\* hand-off.
ImmediatePath ==
    /\ [](immediate # NoFolder => spc = "parked")
    /\ [][(immediate # NoFolder /\ immediate' = NoFolder) =>
            (spc' = "summary" /\ cur' = immediate /\ origin' = "immediate")]_vars
    /\ [][(cpc = "sc_delete" /\ cpc' = "select") => folder \notin folders']_vars

\* C4: processUpdate has returned from a hand-off, sendSummary has run for
\* the folder, the folder is not dirty and the timer has not fired.
ImmediatePathWitness ==
    /\ spc = "return"
    /\ origin = "immediate"
    /\ emitted # <<>>
    /\ cpc = "select"
    /\ cur \notin folders
    /\ pumpAt > 0
    /\ ~pumpC

\* C5: at its select on c.immediate the Classifier can always take a step,
\* at a lock it waits for a holder that is about to unlock, and processUpdate
\* returns from an idle transition either after the hand-off (the Scheduler
\* has received the folder) or with the folder in the dirty-set.
HandOffNeverBlocksNorLoses ==
    /\ [](cpc = "sc_send" => ENABLED (ImmediateSend \/ ImmediateDefault))
    /\ [](cpc \in {"sc_lock", "sc_mark_lock"} /\ foldersMut # "free" =>
            ENABLED FoldersToHandleDrain)
    /\ [][(cpc # "sc_lock" /\ cpc' = "sc_lock") =>
            (cpc = "sc_send" /\ Blocked /\ immediate' = folder)]_vars
    /\ [][(cpc \in {"sc_send", "sc_lock", "sc_delete", "sc_mark_lock", "sc_mark"}
            /\ cpc' = "select") =>
            (cpc = "sc_delete" \/ (cpc = "sc_mark" /\ folder \in folders'))]_vars

\* C5: the Scheduler has exited, the send found no receiver and the
\* Classifier is about to mark the folder.
HandOffNeverBlocksNorLosesWitness ==
    /\ cpc = "sc_mark"
    /\ spc = "exited"
    /\ folder \notin folders

\* C6: the Scheduler's receive on c.immediate calls sendSummary with the
\* received folder, whatever the age of lastEventReq and the state of the
\* timer.
ImmediateBypassesLiveness ==
    [][(immediate # NoFolder /\ immediate' = NoFolder) =>
         (spc' = "summary" /\ cur' = immediate)]_vars

\* C6: a folder received on c.immediate was published while lastEventReq
\* was more than minSummaryInterval old and the timer had not fired.
ImmediateBypassesLivenessWitness ==
    /\ spc = "return"
    /\ origin = "immediate"
    /\ lastEventReq > minSummaryInterval
    /\ emitted # <<>>
    /\ emitted[1] = FolderSummary(cur)
    /\ pumpAt > 0

\* C7: in the events of one publish every FolderCompletion event is preceded
\* by the FolderSummary event of the same folder, which is the folder being
\* published.
SummaryPrecedesCompletions ==
    \A i \in 1..Len(emitted) :
        /\ emitted[i].folder = cur
        /\ emitted[i].type = "FolderCompletion" =>
              \E j \in 1..(i - 1) : emitted[j] = FolderSummary(emitted[i].folder)

\* C7: a publish has logged the summary and two completions.
SummaryPrecedesCompletionsWitness ==
    /\ spc = "return"
    /\ Len(emitted) = 3
    /\ emitted[1].type = "FolderSummary"

\* C8: every sendSummary call logs a FolderCompletion for exactly the devices
\* of the folder that are not c.id and are connected.
CompletionForEveryEligibleDevice ==
    spc = "return" => Completed = Eligible

\* C8: a publish that has logged the FolderSummary event has logged one
\* FolderCompletion for each device of the folder that is not c.id and is
\* connected, and for no other device.
CompletionIffEligible ==
    (spc = "return" /\ emitted # <<>> /\ emitted[1].type = "FolderSummary") =>
        /\ Completed = Eligible
        /\ Len(emitted) = 1 + Cardinality(Eligible)

\* C8: f1 is shared with self and A, all three devices are connected and
\* the only completion is the one for A.
CompletionIffEligibleWitness ==
    /\ spc = "return"
    /\ cur = "f1"
    /\ connected = DeviceIDs
    /\ Completed = {"A"}

\* C9: a publish whose DBSnapshot failed, or whose FolderErrors failed with
\* something else than folder paused / not running, logs nothing; any other
\* publish logs the FolderSummary event; and the tick goes on to call
\* sendSummary for every folder it drained, the failed ones among them.
FailureSilencesOneFolder ==
    /\ (spc = "return" /\ (snapErr \/ folderErr = "other")) => emitted = <<>>
    /\ (spc = "return" /\ ~snapErr
          /\ folderErr \in {"nil", "ErrFolderPaused", "errFolderNotRunning"}) =>
             (emitted # <<>> /\ emitted[1] = FolderSummary(cur))
    /\ failed \subseteq Range(published)
    /\ (spc = "reset" /\ ~stale) => Range(published) = drained

\* C9: in one tick the publish of f1 failed and the publish of f2, a paused
\* folder, has logged its events.
FailureSilencesOneFolderWitness ==
    /\ spc = "return"
    /\ origin = "pump"
    /\ failed = {"f1"}
    /\ cur = "f2"
    /\ folderErr = "ErrFolderPaused"
    /\ emitted # <<>>

\* C10: the timer does not fire, and a tick does not start, before
\* t0 + 2d + pumpInterval of the previous tick, d being the time that tick
\* took.
SelfThrottle ==
    (spc = "tick" \/ pumpC) => notBefore = 0

\* C10: a tick starts after a tick that took time.
SelfThrottleWitness ==
    /\ spc = "tick"
    /\ prevD > 0

\* C11: at most one sendSummary is in flight: a publish is running exactly
\* while the Scheduler is inside sendSummary, its folder is replaced by no
\* other before it returns, and the Scheduler takes a folder from
\* c.immediate only when no publish and no batch is running.
PublishesSerialized ==
    /\ [](cur # NoFolder <=> spc \in {"summary", "return"})
    /\ [][cur # NoFolder => (cur' = cur \/ (spc = "return" /\ cur' = NoFolder))]_vars
    /\ [][(immediate # NoFolder /\ immediate' = NoFolder) =>
            (cur = NoFolder /\ batch = <<>> /\ ~InTick)]_vars

\* C11: while a publish of the batch is running and another folder of the
\* batch waits, an idle transition found no receiver on c.immediate.
PublishesSerializedWitness ==
    /\ spc = "summary"
    /\ origin = "pump"
    /\ batch # <<>>
    /\ cpc = "sc_mark_lock"

\* C12: once the context is cancelled, the Classifier and the Scheduler both
\* exit, and the Classifier has given up its subscription.
ShutdownExits ==
    cancelled ~> (spc = "exited" /\ cpc = "exited" /\ ~subscribed)

\* C12: both goroutines have exited after the cancellation and the
\* subscription is released.
ShutdownExitsWitness ==
    /\ cancelled
    /\ spc = "exited"
    /\ cpc = "exited"
    /\ ~subscribed

\* C13, as stated: once ctx.Done() is closed the Scheduler takes neither the
\* pump case nor the immediate case of its select, enters no drain and
\* calls sendSummary no more.
NothingStartsAfterCancel ==
    [][cancelled =>
         /\ ~(spc = "select" /\ spc' = "tick")
         /\ ~(spc # "drain" /\ spc' = "drain")
         /\ ~(cur' # NoFolder /\ cur' # cur)
         /\ ~(spc = "range" /\ spc' = "summary")]_vars

\* C13, amended: the return itself drains and publishes nothing. The
\* Scheduler returns only from its select and only when ctx.Done() is
\* closed, that step leaves c.folders, c.immediate and pump.C as they were
\* and calls no sendSummary, and a Scheduler that has returned takes
\* nothing from c.folders (only the Classifier, under its lock, still
\* changes it), c.immediate or pump.C and publishes nothing. (A
\* select that finds pump.C or c.immediate ready next to ctx.Done() may
\* still take either, and a batch in progress is finished.)
ExitDrainsNothing ==
    /\ [][(spc # "exited" /\ spc' = "exited") =>
            /\ cancelled'
            /\ spc \in {"select", "parked"}
            /\ folders' = folders
            /\ immediate' = immediate
            /\ pumpC' = pumpC
            /\ cur' = NoFolder
            /\ batch' = <<>>
            /\ published' = published
            /\ emitted' = emitted]_vars
    /\ [][spc = "exited" =>
            /\ spc' = "exited"
            /\ (folders' # folders => foldersMut = "classifier")
            /\ (immediate # NoFolder => immediate' = immediate)
            /\ (pumpC => pumpC')
            /\ cur' = NoFolder
            /\ published' = published
            /\ emitted' = emitted]_vars

\* C13: the Scheduler has returned while folders were dirty and the pump
\* timer had expired.
ExitDrainsNothingWitness ==
    /\ spc = "exited"
    /\ folders # {}
    /\ pumpC

\* C14: the needBytes of a logged summary is max(0, N - P) of the needed
\* bytes N and the completed-progress bytes P the Model answered, and is
\* never negative.
NeedBytesClamped ==
    /\ needBytes >= 0
    /\ (spc = "return" /\ emitted # <<>>) =>
          needBytes = Max(0, needSize - completed)

\* C14: a summary has been logged for a folder whose completed-progress
\* bytes exceed its needed bytes.
NeedBytesClampedWitness ==
    /\ spc = "return"
    /\ emitted # <<>>
    /\ needSize < completed
    /\ needBytes = 0

\* C15: a StateChanged event whose "to" is not idle, or whose "from" is
\* neither syncing nor sync-preparing, has no effect: processUpdate goes on
\* to the send on c.immediate only with a transition from syncing or
\* sync-preparing to idle, every other StateChanged event makes it return,
\* and receiving such an event and returning leave c.folders, its lock and
\* c.immediate as they were.
OtherStateChangeHasNoEffect ==
    /\ [](cpc = "sc_send" =>
            /\ ev.type = "StateChanged"
            /\ ev.to = "idle"
            /\ ev.from \in {"syncing", "sync-preparing"})
    /\ [](cpc = "sc_return" =>
            /\ ev.type = "StateChanged"
            /\ (ev.to # "idle" \/ ev.from \notin {"syncing", "sync-preparing"}))
    /\ [][((cpc = "select" /\ cpc' = "sc_return")
              \/ (cpc = "sc_return" /\ cpc' # "sc_return")) =>
            /\ cpc' \in {"sc_return", "select"}
            /\ folders' = folders
            /\ remarked' = remarked
            /\ foldersMut' = foldersMut
            /\ immediate' = immediate]_vars

\* C15: processUpdate returns on a change from scanning to idle while a
\* folder is dirty and the Scheduler is blocked in its select.
OtherStateChangeHasNoEffectWitness ==
    /\ cpc = "sc_return"
    /\ ev.to = "idle"
    /\ ev.from = "scanning"
    /\ folders # {}
    /\ Blocked

\* the steps of processUpdate on a DeviceConnected event
DeviceConnectedStep ==
    /\ cpc' # cpc
    /\ \/ cpc' = "dc_lock"
       \/ cpc \in {"dc_lock", "dc_mark", "dc_unlock"}

\* C16: processing a DeviceConnected event for device D adds to c.folders
\* exactly the configured folders with D among their devices: the loop
\* leaves c.folders as it was plus every such folder, no other step of the
\* processing changes c.folders, and none sends on c.immediate.
DeviceConnectedMarksShared ==
    /\ [](cpc \in {"dc_lock", "dc_mark", "dc_unlock"} =>
            ev.type = "DeviceConnected")
    /\ [][(cpc = "dc_mark" /\ cpc' = "dc_unlock") =>
            folders' = folders \cup
                {f \in FolderIDs : ev.dev \in Range(cfgFolders[f])}]_vars
    /\ [][(DeviceConnectedStep /\ cpc # "dc_mark") => folders' = folders]_vars
    /\ [][DeviceConnectedStep => immediate' = immediate]_vars

\* C16: the loop has run for a device that shares one of the two folders,
\* the other folder being dirty: the folder shared is added, the dirty one
\* is kept.
DeviceConnectedMarksSharedWitness ==
    /\ cpc = "dc_unlock"
    /\ ev.dev = "B"
    /\ remarked = {}
    /\ folders = {"f1", "f2"}

\* C17: while sendSummary runs (it queries the Model and logs the events)
\* the Scheduler holds neither c.foldersMut nor c.lastEventReqMut, and each
\* mutex is held only across the one access it guards: c.lastEventReqMut
\* for the write of OnEventRequest or the read of foldersToHandle,
\* c.foldersMut for the drain of foldersToHandle or one marking or delete of
\* processUpdate. The holder's next step is that access, and it unlocks
\* (after its loop, for a DeviceConnected event).
LockDiscipline ==
    /\ [](spc \in {"summary", "return"} =>
            foldersMut # "scheduler" /\ lastEventReqMut # "scheduler")
    /\ [](foldersMut \in {"free", "scheduler", "classifier"})
    /\ [](lastEventReqMut \in {"free", "scheduler", "api"})
    /\ [](foldersMut = "scheduler" <=> spc = "drain")
    /\ [](lastEventReqMut = "scheduler" <=> spc = "fth_read")
    /\ [](lastEventReqMut = "api" <=> apc = "locked")
    /\ [](foldersMut = "classifier" <=>
            cpc \in {"dc_mark", "dc_unlock", "dp_mark", "sc_delete", "sc_mark",
                     "mark"})
    /\ [][(foldersMut = "scheduler" /\ spc' # spc) =>
            (foldersMut' = "free" /\ folders' = {})]_vars
    /\ [][(lastEventReqMut = "scheduler" /\ spc' # spc) =>
            (lastEventReqMut' = "free" /\ last' = lastEventReq)]_vars
    /\ [][(lastEventReqMut = "api" /\ apc' # apc) =>
            (lastEventReqMut' = "free" /\ lastEventReq' = 0)]_vars
    /\ [][(foldersMut = "classifier" /\ cpc' # cpc) =>
            (foldersMut' = "free" \/ (cpc = "dc_mark" /\ cpc' = "dc_unlock"))]_vars

\* C17: sendSummary is running while the Classifier holds c.foldersMut and
\* an OnEventRequest holds c.lastEventReqMut.
LockDisciplineWitness ==
    /\ spc = "summary"
    /\ foldersMut = "classifier"
    /\ lastEventReqMut = "api"

\* C18: no goroutine holds c.foldersMut and c.lastEventReqMut at once (the
\* Scheduler takes them one after the other, the Classifier takes only
\* c.foldersMut, OnEventRequest only c.lastEventReqMut), so no cycle of
\* waiting can form, and a mutex that is held is released.
LocksNeverNested ==
    /\ [](foldersMut = "free" \/ lastEventReqMut # foldersMut)
    /\ [](foldersMut # "api" /\ lastEventReqMut # "classifier")
    /\ [](spc \in {"fth_lock", "fth_read"} => foldersMut # "scheduler")
    /\ [](spc \in {"drain_lock", "drain"} => lastEventReqMut # "scheduler")
    /\ (foldersMut # "free" ~> foldersMut = "free")
    /\ (lastEventReqMut # "free" ~> lastEventReqMut = "free")

\* C18: both mutexes are held, by two goroutines, while the Scheduler
\* waits for one of them.
LocksNeverNestedWitness ==
    /\ foldersMut = "classifier"
    /\ lastEventReqMut = "api"
    /\ spc = "fth_lock"

\* C19: c.lastEventReq starts as the zero time, so until OnEventRequest is
\* called for the first time no tick passes the liveness check: nothing is
\* taken from c.folders, no tick calls sendSummary, and every sendSummary
\* that runs was called for a folder received on c.immediate.
NoTickPublishesBeforeRequest ==
    ~requested =>
        /\ spc \notin {"drain_lock", "drain"}
        /\ batch = <<>>
        /\ drained = {}
        /\ published = <<>>
        /\ (spc \in {"summary", "return"} => origin = "immediate")

\* C19: OnEventRequest was never called, a tick has gone by and left its
\* folder dirty, and a folder received on c.immediate is published.
NoTickPublishesBeforeRequestWitness ==
    /\ ~requested
    /\ prevD > 0
    /\ folders # {}
    /\ spc = "return"
    /\ origin = "immediate"
    /\ emitted # <<>>

====
